---- MODULE Spec2Model ----
(***************************************************************************)
(* rsdexcom: the Dexcom share client (src/src/lib.rs) over an injected     *)
(* transport (src/src/client.rs).                                          *)
(*                                                                         *)
(* Strings are sequences of one-character strings, so that str::contains  *)
(* is computed.  A JSON document is a tagged tuple:                        *)
(*   <<"bad">>      bytes that are not one JSON value                      *)
(*   <<"null">>     null                                                   *)
(*   <<"float">>    a number with a fraction or an exponent                *)
(*   <<"num", n>>   an integer literal in the range of i32                 *)
(*   <<"bignum">>   an integer literal out of the range of i32             *)
(*   <<"str", s>>   a string (without escape sequences)                    *)
(*   <<"arr", a>>   an array, a a sequence of documents                    *)
(*   <<"obj", f>>   an object, f a function from its keys to documents     *)
(* An Option is <<"None">> or <<"Some", v>>.                               *)
(***************************************************************************)
EXTENDS Integers, Sequences, FiniteSets, TLC

VARIABLES
    ous,         \* the build's "ous" feature (which url module is compiled)
    pc,          \* where the facade is: idle, inside a call to the transport, returned, panicked
    op,          \* the public operation in progress
    args,        \* that operation's arguments
    account_id,  \* the local account_id of load_session_id (an Option)
    calls,       \* the transport calls of this operation, in order
    replies,     \* what the transport returned to each of them
    decodes,     \* the serde_json::from_slice calls of this operation, in order
    result       \* what the operation returned

vars == <<ous, pc, op, args, account_id, calls, replies, decodes, result>>

----------------------------------------------------------------------------
(* Bounds of the model *)

\* longest response array the transport hands back
MaxArrLen == 2
\* how far past the buffer a reported size may go
MaxOverrun == 1
\* fragments a server message is built from
MaxFrags == 2

----------------------------------------------------------------------------
(* Strings *)

Str_accountName == <<"a","c","c","o","u","n","t","N","a","m","e">>
Str_password == <<"p","a","s","s","w","o","r","d">>
Str_UUID == <<"U","U","I","D">>

Str_SessionIdNotFound == <<"S","e","s","s","i","o","n","I","d","N","o","t","F","o","u","n","d">>
Str_SessionNotValid == <<"S","e","s","s","i","o","n","N","o","t","V","a","l","i","d">>
Str_AccountPasswordInvalid == <<"A","c","c","o","u","n","t","P","a","s","s","w","o","r","d","I","n","v","a","l","i","d">>
Str_SSO_AuthenticateMaxAttemptsExceeed == <<"S","S","O","_","A","u","t","h","e","n","t","i","c","a","t","e","M","a","x","A","t","t","e","m","p","t","s","E","x","c","e","e","e","d">>
Str_InvalidArgument == <<"I","n","v","a","l","i","d","A","r","g","u","m","e","n","t">>

\* str::contains(needle): needle occurs as a contiguous, case-sensitive substring
Contains(haystack, needle) ==
    \E i \in 1..(Len(haystack) - Len(needle) + 1) :
        SubSeq(haystack, i, i + Len(needle) - 1) = needle

None == <<"None">>
Some(v) == <<"Some", v>>

----------------------------------------------------------------------------
(* JSON documents *)

JBad == <<"bad">>
JNull == <<"null">>
JFloat == <<"float">>
JBigNum == <<"bignum">>
JNum(n) == <<"num", n>>
JStr(s) == <<"str", s>>
JArr(a) == <<"arr", a>>
JObj(f) == <<"obj", f>>

Tag(j) == j[1]
Val(j) == j[2]

Ok(v) == <<"Ok", v>>
Err(e) == <<"Err", e>>
IsOk(r) == r[1] = "Ok"
IsErr(r) == r[1] = "Err"

----------------------------------------------------------------------------
(* Deserialization (serde_json::from_slice into the types of lib.rs) *)

\* enum Trend: its variants, and each variant's name as the wire spells it
Trend ==
    {"None", "DoubleUp", "SingleUp", "FortyFiveUp", "Flat", "FortyFiveDown",
     "SingleDown", "DoubleDown", "NotComputable", "RateOutOfRange"}

TrendName ==
    [None |-> <<"N","o","n","e">>,
     DoubleUp |-> <<"D","o","u","b","l","e","U","p">>,
     SingleUp |-> <<"S","i","n","g","l","e","U","p">>,
     FortyFiveUp |-> <<"F","o","r","t","y","F","i","v","e","U","p">>,
     Flat |-> <<"F","l","a","t">>,
     FortyFiveDown |-> <<"F","o","r","t","y","F","i","v","e","D","o","w","n">>,
     SingleDown |-> <<"S","i","n","g","l","e","D","o","w","n">>,
     DoubleDown |-> <<"D","o","u","b","l","e","D","o","w","n">>,
     NotComputable |-> <<"N","o","t","C","o","m","p","u","t","a","b","l","e">>,
     RateOutOfRange |-> <<"R","a","t","e","O","u","t","O","f","R","a","n","g","e">>]

\* String: a JSON string and nothing else
ParseString(j) ==
    IF Tag(j) = "str" THEN Ok(Val(j)) ELSE Err("json")

\* Option<&str>: null is None, a string is Some, anything else an error
ParseOptStr(j) ==
    CASE Tag(j) = "null" -> Ok(None)
      [] Tag(j) = "str" -> Ok(Some(Val(j)))
      [] OTHER -> Err("json")

\* i32: an integer literal in range
ParseI32(j) ==
    IF Tag(j) = "num" THEN Ok(Val(j)) ELSE Err("json")

\* Trend (derived Deserialize of a unit-variant enum): the variant's name as a
\* string, or an object of the one key naming the variant with a null value
ParseTrend(j) ==
    CASE Tag(j) = "str" ->
            IF \E t \in Trend : TrendName[t] = Val(j)
            THEN Ok(CHOOSE t \in Trend : TrendName[t] = Val(j))
            ELSE Err("json")
      [] Tag(j) = "obj" ->
            IF \E t \in Trend : DOMAIN Val(j) = {t} /\ Val(j)[t] = JNull
            THEN Ok(CHOOSE t \in Trend : DOMAIN Val(j) = {t})
            ELSE Err("json")
      [] OTHER -> Err("json")

\* struct GlucosReading (derived Deserialize): an object with the keys "Value"
\* and "Trend", other keys ignored, or an array of the two fields in order
ParseGlucosReading(j) ==
    CASE Tag(j) = "obj" ->
            IF /\ "Value" \in DOMAIN Val(j)
               /\ "Trend" \in DOMAIN Val(j)
               /\ IsOk(ParseI32(Val(j)["Value"]))
               /\ IsOk(ParseTrend(Val(j)["Trend"]))
            THEN Ok([value |-> ParseI32(Val(j)["Value"])[2],
                     trend |-> ParseTrend(Val(j)["Trend"])[2]])
            ELSE Err("json")
      [] Tag(j) = "arr" ->
            IF /\ Len(Val(j)) = 2
               /\ IsOk(ParseI32(Val(j)[1]))
               /\ IsOk(ParseTrend(Val(j)[2]))
            THEN Ok([value |-> ParseI32(Val(j)[1])[2],
                     trend |-> ParseTrend(Val(j)[2])[2]])
            ELSE Err("json")
      [] OTHER -> Err("json")

\* mutant: the first element of any non-empty array is taken
ParseReadings_TakesFirst(j) ==
    IF /\ Tag(j) = "arr"
       /\ Len(Val(j)) >= 1
       /\ IsOk(ParseGlucosReading(Val(j)[1]))
    THEN Ok(<<ParseGlucosReading(Val(j)[1])[2]>>)
    ELSE Err("json")

\* [GlucosReading; 1]: an array of exactly one element that is a reading
ParseReadings(j) ==
    IF /\ Tag(j) = "arr"
       /\ Len(Val(j)) = 1
       /\ IsOk(ParseGlucosReading(Val(j)[1]))
    THEN Ok(<<ParseGlucosReading(Val(j)[1])[2]>>)
    ELSE Err("json")

\* one field of DexcomErrorResponse read from an object: a missing key is None
OptField(f, key) ==
    IF key \in DOMAIN f THEN ParseOptStr(f[key]) ELSE Ok(None)

\* struct DexcomErrorResponse: code is renamed to "Code", message keeps its
\* field name; other keys are ignored; or an array of the two fields in order
ParseDexcomErrorResponse(j) ==
    CASE Tag(j) = "obj" ->
            IF IsOk(OptField(Val(j), "Code")) /\ IsOk(OptField(Val(j), "message"))
            THEN Ok([code |-> OptField(Val(j), "Code")[2],
                     message |-> OptField(Val(j), "message")[2]])
            ELSE Err("json")
      [] Tag(j) = "arr" ->
            IF /\ Len(Val(j)) = 2
               /\ IsOk(ParseOptStr(Val(j)[1]))
               /\ IsOk(ParseOptStr(Val(j)[2]))
            THEN Ok([code |-> ParseOptStr(Val(j)[1])[2],
                     message |-> ParseOptStr(Val(j)[2])[2]])
            ELSE Err("json")
      [] OTHER -> Err("json")

\* serde_json::from_slice::<D>: D is "String" or "Readings"
FromSlice(D, j) ==
    IF D = "String" THEN ParseString(j) ELSE ParseReadings(j)

----------------------------------------------------------------------------
(* impl From<DexcomErrorResponse> for DexcomError *)

DexcomError ==
    {"AccountPasswordInvalid", "AuthenticateMaxAttempsExceed", "SessionNotFound",
     "SessionInvalid", "InvalidUsername", "InvalidPassword", "InvalidAccountId",
     "InvalidUnknown", "Unknown"}

\* mutant: "password" is looked for before "accountName"
From_PasswordFirst(val) ==
    IF val.code = None THEN "Unknown"
    ELSE LET code == val.code[2] IN
         CASE code = Str_SessionIdNotFound -> "SessionNotFound"
           [] code = Str_SessionNotValid -> "SessionInvalid"
           [] code = Str_AccountPasswordInvalid -> "AccountPasswordInvalid"
           [] code = Str_SSO_AuthenticateMaxAttemptsExceeed -> "AuthenticateMaxAttempsExceed"
           [] code = Str_InvalidArgument ->
                IF val.message = None THEN "InvalidUnknown"
                ELSE LET message == val.message[2] IN
                     IF Contains(message, Str_password) THEN "InvalidPassword"
                     ELSE IF Contains(message, Str_accountName) THEN "InvalidUsername"
                     ELSE IF Contains(message, Str_UUID) THEN "InvalidAccountId"
                     ELSE "InvalidUnknown"
           [] OTHER -> "Unknown"

From(val) ==
    IF val.code = None THEN "Unknown"
    ELSE LET code == val.code[2] IN
         CASE code = Str_SessionIdNotFound -> "SessionNotFound"
           [] code = Str_SessionNotValid -> "SessionInvalid"
           [] code = Str_AccountPasswordInvalid -> "AccountPasswordInvalid"
           [] code = Str_SSO_AuthenticateMaxAttemptsExceeed -> "AuthenticateMaxAttempsExceed"
           [] code = Str_InvalidArgument ->
                IF val.message = None THEN "InvalidUnknown"
                ELSE LET message == val.message[2] IN
                     IF Contains(message, Str_accountName) THEN "InvalidUsername"
                     ELSE IF Contains(message, Str_password) THEN "InvalidPassword"
                     ELSE IF Contains(message, Str_UUID) THEN "InvalidAccountId"
                     ELSE "InvalidUnknown"
           [] OTHER -> "Unknown"

----------------------------------------------------------------------------
(* mod url: the endpoints, by the "ous" feature *)

DEXCOM_GLUCOSE_READINGS_ENDPOINT ==
    IF ous
    THEN "https://shareous1.dexcom.com/ShareWebServices/Services/Publisher/ReadPublisherLatestGlucoseValues"
    ELSE "https://share2.dexcom.com/ShareWebServices/Services/Publisher/ReadPublisherLatestGlucoseValues"

DEXCOM_LOGIN_ID_ENDPOINT ==
    IF ous
    THEN "https://shareous1.dexcom.com/ShareWebServices/Services/General/LoginPublisherAccountById"
    ELSE "https://share2.dexcom.com/ShareWebServices/Services/General/LoginPublisherAccountById"

DEXCOM_AUTHENTICATE_ENDPOINT ==
    IF ous
    THEN "https://shareous1.dexcom.com/ShareWebServices/Services/General/AuthenticatePublisherAccount"
    ELSE "https://share2.dexcom.com/ShareWebServices/Services/General/AuthenticatePublisherAccount"

----------------------------------------------------------------------------
(* The request structs and their serialization (serde_json::to_vec) *)

\* mutant: the two fixed numbers land in each other's field
GetLatestGlucoseValuesRequest_Swapped(session_id, minutes, max_count) ==
    [struct |-> "GetLatestGlucoseValuesRequest",
     f |-> [session_id |-> session_id, minutes |-> max_count, max_count |-> minutes]]

GetLatestGlucoseValuesRequest(session_id, minutes, max_count) ==
    [struct |-> "GetLatestGlucoseValuesRequest",
     f |-> [session_id |-> session_id, minutes |-> minutes, max_count |-> max_count]]

GetAccountIdRequest(account_name, password, application_id) ==
    [struct |-> "GetAccountIdRequest",
     f |-> [account_name |-> account_name, password |-> password,
            application_id |-> application_id]]

\* mutant: password and application id land in each other's field
GetSessionIdRequest_Mixed(acc_id, password, application_id) ==
    [struct |-> "GetSessionIdRequest",
     f |-> [account_id |-> acc_id, password |-> application_id,
            application_id |-> password]]

GetSessionIdRequest(acc_id, password, application_id) ==
    [struct |-> "GetSessionIdRequest",
     f |-> [account_id |-> acc_id, password |-> password,
            application_id |-> application_id]]

\* derived Serialize with the serde(rename) attributes: a JSON object
ToVec(request) ==
    CASE request.struct = "GetLatestGlucoseValuesRequest" ->
            JObj([sessionId |-> JStr(request.f.session_id),
                  minutes |-> JNum(request.f.minutes),
                  maxCount |-> JNum(request.f.max_count)])
      [] request.struct = "GetAccountIdRequest" ->
            JObj([accountName |-> JStr(request.f.account_name),
                  password |-> JStr(request.f.password),
                  applicationId |-> JStr(request.f.application_id)])
      [] request.struct = "GetSessionIdRequest" ->
            JObj([accountId |-> JStr(request.f.account_id),
                  password |-> JStr(request.f.password),
                  applicationId |-> JStr(request.f.application_id)])

----------------------------------------------------------------------------
(* post_request, around its one call of Client::request *)

\* let mut buf = [0; 512]
BufSize == 512

\* the arguments post_request hands to Client::request
PostRequestCall(uri, request) ==
    [method |-> "Post",
     uri |-> uri,
     headers |-> << <<"Content-Type", "application/json">>,
                    <<"User-Agent", "rsdexcom/0.0.1">> >>,
     body |-> ToVec(request),
     buf_len |-> BufSize]

NoResult == <<"NoResult">>
Panic == <<"Panic">>
ConnectionError(e) == <<"ConnectionError", e>>
JSONError == <<"JSONError">>
DexcomErrorOf(d) == <<"DexcomError", d>>

\* &buf[..size] is out of range when size exceeds the buffer
SliceInRange(size) == size <= BufSize

\* &buf[..size], for a size in range: no bytes are no JSON value
Slice(body, size) == IF size = 0 THEN JBad ELSE body

\* mutant: every status below 300 takes the success arm
IsSuccessStatus_NoLowerBound(status_code) == status_code <= 299

\* the status codes of the success arm
IsSuccessStatus(status_code) == status_code >= 200 /\ status_code <= 299

\* mutant: a body that is not a D is tried as an error object
SuccessArm_FallsBack(D, buf) ==
    LET response == FromSlice(D, buf)
        fallback == ParseDexcomErrorResponse(buf) IN
    IF IsOk(response)
    THEN [result |-> Ok(response[2]), decodes |-> << [type |-> D, out |-> response] >>]
    ELSE [result |-> IF IsOk(fallback)
                     THEN Err(DexcomErrorOf(From(fallback[2])))
                     ELSE Err(JSONError),
          decodes |-> << [type |-> D, out |-> response],
                         [type |-> "DexcomErrorResponse", out |-> fallback] >>]

\* the success arm: from_slice::<D>, its error mapped to JSONError
SuccessArm(D, buf) ==
    LET response == FromSlice(D, buf) IN
    [result |-> IF IsOk(response) THEN Ok(response[2]) ELSE Err(JSONError),
     decodes |-> << [type |-> D, out |-> response] >>]

\* the other arm: from_slice::<DexcomErrorResponse>, then into DexcomError
ErrorArm(buf) ==
    LET response == ParseDexcomErrorResponse(buf) IN
    [result |-> IF IsOk(response)
                THEN Err(DexcomErrorOf(From(response[2])))
                ELSE Err(JSONError),
     decodes |-> << [type |-> "DexcomErrorResponse", out |-> response] >>]

\* mutant: a transport error is taken for an empty response of status 0
PostRequestReturn_SwallowsError(D, reply) ==
    IF ~reply.ok
    THEN ErrorArm(JBad)
    ELSE IF ~SliceInRange(reply.size)
    THEN [result |-> Panic, decodes |-> <<>>]
    ELSE IF IsSuccessStatus(reply.status)
    THEN SuccessArm(D, Slice(reply.body, reply.size))
    ELSE ErrorArm(Slice(reply.body, reply.size))

\* post_request from the return of Client::request on: the operation's outcome
\* and the from_slice calls made
PostRequestReturn(D, reply) ==
    IF ~reply.ok
    THEN [result |-> Err(ConnectionError(reply.e)), decodes |-> <<>>]
    ELSE IF ~SliceInRange(reply.size)
    THEN [result |-> Panic, decodes |-> <<>>]
    ELSE IF IsSuccessStatus(reply.status)
    THEN SuccessArm(D, Slice(reply.body, reply.size))
    ELSE ErrorArm(Slice(reply.body, reply.size))

----------------------------------------------------------------------------
(* Inputs: the caller's arguments and what the transport may return *)

AccountNames == { <<"u">>, <<"u","2">> }
Passwords == { <<"p">>, <<"p","2">> }
ApplicationIds == { <<"a">>, <<"a","2">> }
\* identifiers the server issues, and a session id the caller made up
ServerIds == { <<"a","2","1","d">>, <<"1","e","9","1">> }
SessionIds == ServerIds \cup { <<>> }

Str_is_required == <<" ","i","s"," ","r","e","q","u","i","r","e","d">>
Str_Password == <<"P","a","s","s","w","o","r","d">>
Str_Other == <<"O","t","h","e","r">>
Str_invalidargument == <<"i","n","v","a","l","i","d","a","r","g","u","m","e","n","t">>

RECURSIVE Concat(_)
Concat(ss) == IF ss = <<>> THEN <<>> ELSE Head(ss) \o Concat(Tail(ss))

\* messages: up to MaxFrags fragments, one after the other
MessageFrags == {Str_accountName, Str_password, Str_UUID, Str_Password, Str_is_required}
Messages ==
    { Concat(ss) : ss \in UNION { [1..n -> MessageFrags] : n \in 0..MaxFrags } }

Codes ==
    {Str_SessionIdNotFound, Str_SessionNotValid, Str_AccountPasswordInvalid,
     Str_SSO_AuthenticateMaxAttemptsExceeed, Str_InvalidArgument,
     Str_invalidargument, Str_Other}

\* every decoded DexcomErrorResponse
ErrorResponses ==
    [code : {None} \cup {Some(c) : c \in Codes},
     message : {None} \cup {Some(m) : m \in Messages}]

\* the messages the transport's error bodies carry
MessageSamples ==
    {Str_accountName \o Str_is_required,
     Str_password \o Str_is_required,
     Str_UUID \o Str_is_required,
     Str_is_required,
     Str_password \o Str_accountName}

CodeSamples == {Str_SessionIdNotFound, Str_InvalidArgument, Str_Other}

NoKeys == [k \in {} |-> JNull]

\* error bodies: "Code" absent, null or a string; the message absent, or a
\* string under the key "Message" or "message"
ErrorBodies ==
    { JObj(c @@ m) :
        c \in {NoKeys, "Code" :> JNull} \cup {"Code" :> JStr(x) : x \in CodeSamples},
        m \in {NoKeys} \cup {k :> JStr(x) : k \in {"Message", "message"},
                                             x \in MessageSamples} }

\* what a response array may hold: readings (well-formed, with further keys,
\* as an array of the fields), documents that are no reading, a server code
ElementDocs ==
    { JObj([Value |-> JNum(153), Trend |-> JStr(TrendName["Flat"])]),
      JObj([WT |-> JStr(<<"D","a","t","e">>), Value |-> JNum(-7),
            Trend |-> JStr(TrendName["SingleUp"])]),
      JArr(<<JNum(2147483647), JObj([DoubleDown |-> JNull])>>),
      JObj([Value |-> JBigNum, Trend |-> JStr(TrendName["Flat"])]),
      JObj([Value |-> JNum(153), Trend |-> JStr(<<"f","l","a","t">>)]),
      JObj([Value |-> JFloat, Trend |-> JNum(4)]),
      JObj([Value |-> JNum(153)]),
      JStr(Str_SessionIdNotFound) }

ArrayBodies ==
    { JArr(a) : a \in UNION { [1..n -> ElementDocs] : n \in 0..MaxArrLen } }

Bodies ==
    {JBad, JNull, JNum(153)} \cup {JStr(x) : x \in ServerIds}
        \cup ArrayBodies \cup ErrorBodies

Statuses == {199, 200, 299, 300, 500}

\* the error type of the transport (Client::Error)
TransportErrors == {"Timeout", "Reset"}

\* Client::request returns Ok((size, status_code)) or Err(e).  body is what
\* buf[..size] holds when size is in range; no bytes hold no document.
Replies ==
    { [ok |-> TRUE, size |-> BufSize, status |-> st, body |-> b, e |-> "none"] :
        st \in Statuses, b \in Bodies }
    \cup
    { [ok |-> TRUE, size |-> sz, status |-> st, body |-> JBad, e |-> "none"] :
        sz \in {0} \cup ((BufSize + 1)..(BufSize + MaxOverrun)), st \in Statuses }
    \cup
    { [ok |-> FALSE, size |-> 0, status |-> 0, body |-> JBad, e |-> e] :
        e \in TransportErrors }

----------------------------------------------------------------------------
(* The facade: Dexcom<C> *)

NoArgs == [account_name |-> <<>>, password |-> <<>>, application_id |-> <<>>,
           session_id |-> <<>>]

\* Dexcom::new, for either build
Init ==
    /\ ous \in BOOLEAN
    /\ pc = "idle"
    /\ op = "none"
    /\ args = NoArgs
    /\ account_id = None
    /\ calls = <<>>
    /\ replies = <<>>
    /\ decodes = <<>>
    /\ result = NoResult

\* get_current_glucose_reading up to its call of the transport
GetCurrentGlucoseReading(session_id) ==
    /\ pc = "idle"
    /\ op' = "get_current_glucose_reading"
    /\ args' = [NoArgs EXCEPT !.session_id = session_id]
    /\ calls' = << PostRequestCall(DEXCOM_GLUCOSE_READINGS_ENDPOINT,
                                   GetLatestGlucoseValuesRequest(session_id, 10, 1)) >>
    /\ pc' = "get_current_glucose_reading"
    /\ UNCHANGED <<ous, account_id, replies, decodes, result>>

\* outcome of an operation whose last post_request returned r
Finish(r) ==
    /\ result' = r.result
    /\ pc' = IF r.result = Panic THEN "panicked" ELSE "returned"

\* get_current_glucose_reading from the transport's return on
GetCurrentGlucoseReadingReturn(reply) ==
    /\ pc = "get_current_glucose_reading"
    /\ LET r == PostRequestReturn("Readings", reply) IN
       /\ replies' = Append(replies, reply)
       /\ decodes' = decodes \o r.decodes
       /\ Finish(r)
    /\ UNCHANGED <<ous, op, args, account_id, calls>>

\* load_session_id up to the transport call of get_account_id
LoadSessionId(account_name, password, application_id) ==
    /\ pc = "idle"
    /\ op' = "load_session_id"
    /\ args' = [NoArgs EXCEPT !.account_name = account_name,
                              !.password = password,
                              !.application_id = application_id]
    /\ calls' = << PostRequestCall(DEXCOM_AUTHENTICATE_ENDPOINT,
                                   GetAccountIdRequest(account_name, password,
                                                       application_id)) >>
    /\ pc' = "get_account_id"
    /\ UNCHANGED <<ous, account_id, replies, decodes, result>>

\* mutant: the error of get_account_id is not propagated; get_session_id is
\* called with an empty account id
GetAccountIdReturn_NoShortCircuit(reply) ==
    /\ pc = "get_account_id"
    /\ LET r == PostRequestReturn("String", reply)
           id == IF IsOk(r.result) THEN r.result[2] ELSE <<>> IN
       /\ replies' = Append(replies, reply)
       /\ decodes' = decodes \o r.decodes
       /\ account_id' = Some(id)
       /\ calls' = Append(calls,
                      PostRequestCall(DEXCOM_LOGIN_ID_ENDPOINT,
                                      GetSessionIdRequest(id, args.password,
                                                          args.application_id)))
       /\ pc' = "get_session_id"
       /\ UNCHANGED result
    /\ UNCHANGED <<ous, op, args>>

\* get_account_id returns: its error is load_session_id's (the ? operator),
\* its value is bound to account_id and get_session_id calls the transport
GetAccountIdReturn(reply) ==
    /\ pc = "get_account_id"
    /\ LET r == PostRequestReturn("String", reply) IN
       /\ replies' = Append(replies, reply)
       /\ decodes' = decodes \o r.decodes
       /\ IF IsOk(r.result)
          THEN /\ account_id' = Some(r.result[2])
               /\ calls' = Append(calls,
                              PostRequestCall(DEXCOM_LOGIN_ID_ENDPOINT,
                                              GetSessionIdRequest(r.result[2],
                                                                  args.password,
                                                                  args.application_id)))
               /\ pc' = "get_session_id"
               /\ UNCHANGED result
          ELSE /\ Finish(r)
               /\ UNCHANGED <<account_id, calls>>
    /\ UNCHANGED <<ous, op, args>>

\* get_session_id returns and load_session_id with it; account_id is dropped
GetSessionIdReturn(reply) ==
    /\ pc = "get_session_id"
    /\ LET r == PostRequestReturn("String", reply) IN
       /\ replies' = Append(replies, reply)
       /\ decodes' = decodes \o r.decodes
       /\ Finish(r)
    /\ account_id' = None
    /\ UNCHANGED <<ous, op, args, calls>>

\* the caller has the result; the facade holds nothing but the client
Returned ==
    /\ pc = "returned"
    /\ pc' = "idle"
    /\ op' = "none"
    /\ args' = NoArgs
    /\ calls' = <<>>
    /\ replies' = <<>>
    /\ decodes' = <<>>
    /\ result' = NoResult
    /\ UNCHANGED <<ous, account_id>>

Next ==
    \/ \E s \in SessionIds : GetCurrentGlucoseReading(s)
    \/ \E reply \in Replies : GetCurrentGlucoseReadingReturn(reply)
    \/ \E n \in AccountNames, p \in Passwords, a \in ApplicationIds :
            LoadSessionId(n, p, a)
    \/ \E reply \in Replies : GetAccountIdReturn(reply)
    \/ \E reply \in Replies : GetSessionIdReturn(reply)
    \/ Returned

Spec == Init /\ [][Next]_vars

----------------------------------------------------------------------------
(* The conversion alone: every decoded DexcomErrorResponse, then .into() *)

InitFrom ==
    /\ ous \in BOOLEAN
    /\ pc = "from"
    /\ op = "none"
    /\ args = NoArgs
    /\ account_id = None
    /\ calls = <<>>
    /\ replies = <<>>
    /\ \E val \in ErrorResponses :
            decodes = << [type |-> "DexcomErrorResponse", out |-> Ok(val)] >>
    /\ result = NoResult

\* let error: DexcomError = response.into(); Err(ClientError::DexcomError(error))
Into ==
    /\ pc = "from"
    /\ result' = Err(DexcomErrorOf(From(decodes[1].out[2])))
    /\ pc' = "converted"
    /\ UNCHANGED <<ous, op, args, account_id, calls, replies, decodes>>

NextFrom == Into

SpecFrom == InitFrom /\ [][NextFrom]_vars

----------------------------------------------------------------------------
(* Vocabulary of the properties *)

\* the operation has ended (by returning or by panicking)
Ended == pc \in {"returned", "panicked"}

LastReply == replies[Len(replies)]

\* the transport returned a status and a size within the buffer, so that the
\* response has a body
HasBody(reply) == reply.ok /\ reply.size <= 512

BodyOf(reply) == IF reply.size = 0 THEN JBad ELSE reply.body

Is2xx(reply) == reply.status \in 200..299

\* the call succeeded with a 2xx status and a JSON string body
StringSuccess(reply) ==
    HasBody(reply) /\ Is2xx(reply) /\ BodyOf(reply)[1] = "str"

\* the success type the operation in progress expects
Expected == IF op = "load_session_id" THEN "String" ELSE "Readings"

JSONErrorResult == <<"Err", <<"JSONError">>>>
DomainErrorResult(d) == <<"Err", <<"DexcomError", d>>>>

----------------------------------------------------------------------------
(* Properties *)

AuthenticateUri ==
    IF ous
    THEN "https://shareous1.dexcom.com/ShareWebServices/Services/General/AuthenticatePublisherAccount"
    ELSE "https://share2.dexcom.com/ShareWebServices/Services/General/AuthenticatePublisherAccount"

LoginByIdUri ==
    IF ous
    THEN "https://shareous1.dexcom.com/ShareWebServices/Services/General/LoginPublisherAccountById"
    ELSE "https://share2.dexcom.com/ShareWebServices/Services/General/LoginPublisherAccountById"

ReadingsUri ==
    IF ous
    THEN "https://shareous1.dexcom.com/ShareWebServices/Services/Publisher/ReadPublisherLatestGlucoseValues"
    ELSE "https://share2.dexcom.com/ShareWebServices/Services/Publisher/ReadPublisherLatestGlucoseValues"

\* C1: a run of load_session_id calls the transport at most twice, first a
\* POST to the account-id endpoint, then a POST to the session endpoint; when
\* both calls succeed with a 2xx status and a JSON string body there are
\* exactly two calls and the result is the string of the second body; when the
\* first call fails in any way the second call is never made and no session
\* id is returned.
C1_LoadSessionIdCallOrder ==
    op = "load_session_id" =>
        /\ Len(calls) \in 1..2
        /\ Len(replies) <= Len(calls)
        /\ calls[1].method = "Post" /\ calls[1].uri = AuthenticateUri
        /\ Len(calls) = 2 => calls[2].method = "Post" /\ calls[2].uri = LoginByIdUri
        /\ (Len(replies) >= 1 /\ StringSuccess(replies[1])) => Len(calls) = 2
        /\ (Len(replies) = 2 /\ StringSuccess(replies[1]) /\ StringSuccess(replies[2])) =>
                /\ pc = "returned"
                /\ result = <<"Ok", BodyOf(replies[2])[2]>>
        /\ (Len(replies) >= 1 /\ ~StringSuccess(replies[1])) =>
                /\ Ended
                /\ Len(calls) = 1
                /\ Len(replies) = 1
                /\ result[1] # "Ok"

\* C1 witness: both calls succeeded and the two ids differ
C1_Witness ==
    /\ op = "load_session_id"
    /\ pc = "returned"
    /\ Len(replies) = 2
    /\ StringSuccess(replies[1]) /\ StringSuccess(replies[2])
    /\ replies[1].body # replies[2].body
    /\ result = <<"Ok", replies[2].body[2]>>

\* a body that is an array of one reading object with an integer Value and a
\* Trend naming a variant
OneReadingBody(j) ==
    /\ j[1] = "arr"
    /\ Len(j[2]) = 1
    /\ j[2][1][1] = "obj"
    /\ {"Value", "Trend"} \subseteq DOMAIN j[2][1][2]
    /\ j[2][1][2]["Value"][1] = "num"
    /\ j[2][1][2]["Trend"][1] = "str"
    /\ \E t \in Trend : TrendName[t] = j[2][1][2]["Trend"][2]

\* C2: get_current_glucose_reading makes exactly one transport call, a POST to
\* the readings endpoint whose body carries the caller's sessionId with
\* minutes = 10 and maxCount = 1; on a 2xx response whose body is a
\* one-element array of readings it returns that element with the body's
\* Value and Trend (Value 153, Trend "Flat" gives value 153, trend Flat).
C2_OneReadingCall ==
    op = "get_current_glucose_reading" =>
        /\ Len(calls) = 1
        /\ Len(replies) = IF Ended THEN 1 ELSE 0
        /\ calls[1].method = "Post"
        /\ calls[1].uri = ReadingsUri
        /\ calls[1].body = <<"obj", [sessionId |-> <<"str", args.session_id>>,
                                     minutes |-> <<"num", 10>>,
                                     maxCount |-> <<"num", 1>>]>>
        /\ (Ended /\ HasBody(LastReply) /\ Is2xx(LastReply)
                  /\ OneReadingBody(BodyOf(LastReply))) =>
                LET elem == BodyOf(LastReply)[2][1][2] IN
                /\ result[1] = "Ok"
                /\ Len(result[2]) = 1
                /\ result[2][1].value = elem["Value"][2]
                /\ TrendName[result[2][1].trend] = elem["Trend"][2]
        /\ (Ended /\ HasBody(LastReply) /\ Is2xx(LastReply)
                  /\ BodyOf(LastReply) =
                        <<"arr", << <<"obj", [Value |-> <<"num", 153>>,
                                              Trend |-> <<"str", <<"F","l","a","t">>>>]>> >> >>) =>
                result = <<"Ok", <<[value |-> 153, trend |-> "Flat"]>>>>

\* C2 witness: a reading with further keys came back on a 299
C2_Witness ==
    /\ op = "get_current_glucose_reading"
    /\ pc = "returned"
    /\ args.session_id # <<>>
    /\ LastReply.status = 299
    /\ OneReadingBody(LastReply.body)
    /\ "WT" \in DOMAIN LastReply.body[2][1][2]
    /\ result = <<"Ok", <<[value |-> -7, trend |-> "SingleUp"]>>>>

\* C3: on a status >= 300 with the body {"Code":"InvalidArgument","Message":m},
\* m = "accountName is required" gives InvalidUsername, an m with "password"
\* instead gives InvalidPassword, an m with none of "accountName", "password",
\* "UUID" gives InvalidUnknown: the message is read from the key "Message".
C3_MessageKeyRead ==
    (/\ Ended
     /\ HasBody(LastReply)
     /\ LastReply.status >= 300
     /\ BodyOf(LastReply)[1] = "obj"
     /\ DOMAIN BodyOf(LastReply)[2] = {"Code", "Message"}
     /\ BodyOf(LastReply)[2]["Code"] = <<"str", Str_InvalidArgument>>) =>
        LET m == BodyOf(LastReply)[2]["Message"][2] IN
        /\ m = Str_accountName \o Str_is_required =>
                result = DomainErrorResult("InvalidUsername")
        /\ (Contains(m, Str_password) /\ ~Contains(m, Str_accountName)) =>
                result = DomainErrorResult("InvalidPassword")
        /\ (~Contains(m, Str_accountName) /\ ~Contains(m, Str_password)
                /\ ~Contains(m, Str_UUID)) =>
                result = DomainErrorResult("InvalidUnknown")

\* the conversion's input and output, once it ran
FromInput == decodes[1].out[2]
FromOutput == result[2][2]
KnownCodes ==
    {Str_SessionIdNotFound, Str_SessionNotValid, Str_AccountPasswordInvalid,
     Str_SSO_AuthenticateMaxAttemptsExceeed, Str_InvalidArgument}

\* C4: the conversion of a decoded (code, message) pair is the mapping table:
\* the four plain codes whatever the message; InvalidArgument by the first of
\* "accountName", "password", "UUID" the message contains, case-sensitively,
\* InvalidUnknown when it contains none or is absent; Unknown for any other
\* or an absent code.
C4_MappingTable ==
    pc = "converted" =>
        /\ result[1] = "Err" /\ result[2][1] = "DexcomError"
        /\ FromInput.code = <<"Some", Str_SessionIdNotFound>> =>
                FromOutput = "SessionNotFound"
        /\ FromInput.code = <<"Some", Str_SessionNotValid>> =>
                FromOutput = "SessionInvalid"
        /\ FromInput.code = <<"Some", Str_AccountPasswordInvalid>> =>
                FromOutput = "AccountPasswordInvalid"
        /\ FromInput.code = <<"Some", Str_SSO_AuthenticateMaxAttemptsExceeed>> =>
                FromOutput = "AuthenticateMaxAttempsExceed"
        /\ (FromInput.code = <<"Some", Str_InvalidArgument>> /\ FromInput.message = <<"None">>) =>
                FromOutput = "InvalidUnknown"
        /\ (FromInput.code = <<"Some", Str_InvalidArgument>> /\ FromInput.message # <<"None">>) =>
                LET m == FromInput.message[2] IN
                FromOutput =
                    IF Contains(m, Str_accountName) THEN "InvalidUsername"
                    ELSE IF Contains(m, Str_password) THEN "InvalidPassword"
                    ELSE IF Contains(m, Str_UUID) THEN "InvalidAccountId"
                    ELSE "InvalidUnknown"
        /\ (FromInput.code = <<"Some", Str_InvalidArgument>>
                /\ FromInput.message = <<"Some", Str_password \o Str_accountName>>) =>
                FromOutput = "InvalidUsername"
        /\ (FromInput.code = <<"Some", Str_InvalidArgument>>
                /\ FromInput.message = <<"Some", Str_Password>>) =>
                FromOutput = "InvalidUnknown"
        /\ (FromInput.code = <<"None">> \/ FromInput.code[2] \notin KnownCodes) =>
                FromOutput = "Unknown"

\* C4 witness: a message with "password" before "accountName" was converted
C4_Witness ==
    /\ pc = "converted"
    /\ FromInput.code = <<"Some", Str_InvalidArgument>>
    /\ FromInput.message = <<"Some", Str_password \o Str_accountName>>
    /\ result = DomainErrorResult("InvalidUsername")

\* C5: a 2xx status with a body that does not parse as the expected success
\* type ends the operation with JSONError, never with a DexcomError, and the
\* body is not tried as an error object.
C5_UnparsableSuccessBody ==
    (/\ Ended
     /\ HasBody(LastReply)
     /\ Is2xx(LastReply)
     /\ FromSlice(Expected, BodyOf(LastReply))[1] = "Err") =>
        /\ result = JSONErrorResult
        /\ \A i \in 1..Len(decodes) : decodes[i].type # "DexcomErrorResponse"

\* C5 witness: a well-formed error object came back on a 200
C5_Witness ==
    /\ pc = "returned"
    /\ LastReply.ok /\ LastReply.status = 200 /\ LastReply.size = 512
    /\ LastReply.body = <<"obj", [Code |-> <<"str", Str_SessionIdNotFound>>]>>
    /\ result = JSONErrorResult

\* C6: a transport error ends the operation at once with ConnectionError of
\* that same error: no body is decoded for it, no JSONError or DexcomError
\* is produced, and the operation makes no further transport call.
C6_TransportError ==
    /\ \A i \in 1..Len(replies) : ~replies[i].ok => i = Len(replies)
    /\ (Len(replies) >= 1 /\ ~LastReply.ok) =>
            /\ pc = "returned"
            /\ result = <<"Err", <<"ConnectionError", LastReply.e>>>>
            /\ Len(calls) = Len(replies)
            /\ Len(decodes) = Len(replies) - 1

\* C6 witness: the second call of load_session_id met a transport error
C6_Witness ==
    /\ op = "load_session_id"
    /\ pc = "returned"
    /\ Len(replies) = 2
    /\ ~replies[2].ok
    /\ result = <<"Err", <<"ConnectionError", "Reset">>>>

\* C7: in load_session_id the first request carries the caller's accountName,
\* password and applicationId; the second carries as accountId the string
\* decoded from the first response, and the caller's password and
\* applicationId unchanged; the account id is in that one request only and is
\* not kept once the operation has returned.
C7_RequestBodies ==
    /\ op = "load_session_id" =>
        /\ calls[1].body = <<"obj", [accountName |-> <<"str", args.account_name>>,
                                     password |-> <<"str", args.password>>,
                                     applicationId |-> <<"str", args.application_id>>]>>
        /\ Len(calls) = 2 =>
              calls[2].body = <<"obj", [accountId |-> <<"str", BodyOf(replies[1])[2]>>,
                                        password |-> <<"str", args.password>>,
                                        applicationId |-> <<"str", args.application_id>>]>>
    /\ \A i \in 1..Len(calls) :
            "accountId" \in DOMAIN calls[i].body[2] => (op = "load_session_id" /\ i = 2)
    /\ pc # "get_session_id" => account_id = <<"None">>
    /\ pc = "get_session_id" => account_id = <<"Some", BodyOf(replies[1])[2]>>

\* C7 witness: the second request is out, password and application id differ
C7_Witness ==
    /\ op = "load_session_id"
    /\ Len(calls) = 2
    /\ args.password = <<"p","2">>
    /\ args.application_id = <<"a">>
    /\ calls[2].body[2]["accountId"] = <<"str", <<"1","e","9","1">>>>

\* C8: on a 2xx response whose body is no array, or an array of zero or of
\* more than one element, get_current_glucose_reading ends with the
\* serialization error: it does not panic, returns no reading, and does not
\* take the first element of a longer array.
C8_NotOneElement ==
    (/\ op = "get_current_glucose_reading"
     /\ Ended
     /\ HasBody(LastReply)
     /\ Is2xx(LastReply)
     /\ (BodyOf(LastReply)[1] # "arr" \/ Len(BodyOf(LastReply)[2]) # 1)) =>
        /\ pc = "returned"
        /\ result = JSONErrorResult

\* C8 witness: two well-formed readings came back
C8_Witness ==
    /\ op = "get_current_glucose_reading"
    /\ pc = "returned"
    /\ HasBody(LastReply) /\ Is2xx(LastReply)
    /\ LastReply.body[1] = "arr"
    /\ Len(LastReply.body[2]) = 2
    /\ OneReadingBody(<<"arr", <<LastReply.body[2][1]>>>>)
    /\ OneReadingBody(<<"arr", <<LastReply.body[2][2]>>>>)
    /\ result = JSONErrorResult

\* C9: on a status outside 200..=299 no operation returns a success value,
\* whatever the body; the result is a domain error when the body parses as
\* the error object and the serialization error when it does not.
C9_NonSuccessStatus ==
    (Ended /\ LastReply.ok /\ ~Is2xx(LastReply)) =>
        /\ result[1] # "Ok"
        /\ (HasBody(LastReply) /\ ParseDexcomErrorResponse(BodyOf(LastReply))[1] = "Ok") =>
                /\ result[1] = "Err"
                /\ result[2][1] = "DexcomError"
        /\ (HasBody(LastReply) /\ ParseDexcomErrorResponse(BodyOf(LastReply))[1] = "Err") =>
                result = JSONErrorResult

\* C9 witness: a valid success payload came back on a 199
C9_Witness ==
    /\ op = "get_current_glucose_reading"
    /\ pc = "returned"
    /\ LastReply.ok /\ LastReply.status = 199 /\ LastReply.size = 512
    /\ OneReadingBody(LastReply.body)
    /\ result = JSONErrorResult

\* C10: whatever (bytes-written, status) pair the transport returns, also a
\* count above the 512-byte buffer, every operation ends with a success value
\* or one of the three error kinds and never panics slicing the buffer.
C10_NeverPanics ==
    Ended =>
        /\ pc = "returned"
        /\ \/ result[1] = "Ok"
           \/ /\ result[1] = "Err"
              /\ result[2][1] \in {"ConnectionError", "DexcomError", "JSONError"}

====
